---- MODULE Spec2Model ----
(***************************************************************************)
(* Grid overlay and cell extraction of extract-pixels.                     *)
(*                                                                         *)
(* Lengths that the program keeps as real numbers (gridOffset, gridSize)   *)
(* are held as integer multiples of 1/Den; canvas sizes, cell counts and   *)
(* renderScale are whole numbers.  Tuples are <<x, y>>: index 1 is the     *)
(* source's [0], index 2 is the source's [1].                              *)
(*                                                                         *)
(* Two specifications share the definitions of the renderers and of the    *)
(* extractor.  Spec is the App component driven by its image, number-field *)
(* and mode events; the pointer handlers (onMouseDown, onMouseMove,        *)
(* onMouseUp), the only writers of gridOffset and gridSize, are outside    *)
(* it.  SpecRender applies the two renderers and the extractor to          *)
(* component states enumerated over gridOffset, gridSize, maxCells, scale  *)
(* and image.                                                              *)
(***************************************************************************)
EXTENDS Integers, Sequences, FiniteSets, TLC

\* ------------------------------------------------------------------ bounds
Den == 2                \* resolution of fractional coordinates: 1/Den
MaxCanvas == 4          \* largest canvas / image side enumerated
MaxRequests == 2        \* cap on the number of decode requests issued
MaxRenderers == 2       \* cap on the number of GridRenderer objects built

\* ------------------------------------------------------- program constants
MinScale == 1
MaxScale == 10
MinMaxCells == 1
MaxMaxCells == 500
NaNMaxCells == 1
Threshold == 127
On == 255
Off == 0
Opaque == 255
DefaultCanvasWidth == 300
DefaultCanvasHeight == 150
InitialScale == 2
InitialGridSize == 8

\* ------------------------------------------------------- JavaScript numbers
\* NaN is the valueAsNumber of an empty or non-numeric field; every
\* arithmetic operation and Math.min / Math.max propagate it, and every
\* comparison with it is false.
NaN == -1000000
IsNaN(v) == v = NaN

MathMin(a, b) == IF IsNaN(a) \/ IsNaN(b) THEN NaN ELSE IF a < b THEN a ELSE b
MathMax(a, b) == IF IsNaN(a) \/ IsNaN(b) THEN NaN ELSE IF a > b THEN a ELSE b
Mul(a, b) == IF IsNaN(a) \/ IsNaN(b) THEN NaN ELSE a * b
Add(a, b) == IF IsNaN(a) \/ IsNaN(b) THEN NaN ELSE a + b
Less(a, b) == ~IsNaN(a) /\ ~IsNaN(b) /\ a < b
Greater(a, b) == ~IsNaN(a) /\ ~IsNaN(b) /\ a > b

\* Math.floor(a / b) for a, b in the same unit, b > 0.
FloorDiv(a, b) == a \div b

\* Math.round of n/Den: the nearest integer, halves rounded up.
MathRound(n) == (2 * n + Den) \div (2 * Den)

Abs(n) == IF n < 0 THEN -n ELSE n

\* Assignment to canvas.width / canvas.height (an unsigned long attribute):
\* NaN becomes 0, a negative number falls back to the attribute's default.
CanvasWidth(v) ==
  IF IsNaN(v) THEN 0 ELSE IF v < 0 THEN DefaultCanvasWidth ELSE v
CanvasHeight(v) ==
  IF IsNaN(v) THEN 0 ELSE IF v < 0 THEN DefaultCanvasHeight ELSE v

\* --------------------------------------------------------------- GridParams
GridParams(canvasSize, maxCells, cellSize, gridOffset, renderScale) ==
  [canvasSize |-> canvasSize, maxCells |-> maxCells, cellSize |-> cellSize,
   gridOffset |-> gridOffset, renderScale |-> renderScale]

\* ------------------------------------------------- canvas2DRenderer.renderGrid
\* gridPixels with the quotient rounded up instead of down.
gridPixelsRoundedUp(p) ==
  << MathMin(p.maxCells[1],
             -FloorDiv(p.gridOffset[1] - p.canvasSize[1] * Den, p.cellSize[1])),
     MathMin(p.maxCells[2],
             -FloorDiv(p.gridOffset[2] - p.canvasSize[2] * Den, p.cellSize[2])) >>

gridPixels(p) ==
  << MathMin(p.maxCells[1],
             FloorDiv(p.canvasSize[1] * Den - p.gridOffset[1], p.cellSize[1])),
     MathMin(p.maxCells[2],
             FloorDiv(p.canvasSize[2] * Den - p.gridOffset[2], p.cellSize[2])) >>

gridEnd(p) ==
  << p.gridOffset[1] + p.cellSize[1] * gridPixels(p)[1],
     p.gridOffset[2] + p.cellSize[2] * gridPixels(p)[2] >>

\* LineLoop with the canvas limit tested by <= instead of <.
RECURSIVE LineLoopInclusive(_, _, _, _, _)
LineLoopInclusive(pos, i, step, limit, cells) ==
  IF ~IsNaN(pos) /\ pos <= limit * Den /\ i <= cells
    THEN <<pos>> \o LineLoopInclusive(Add(pos, step), i + 1, step, limit, cells)
    ELSE <<>>

\* One for-loop of renderGrid: the positions (in 1/Den device pixels) at
\* which a line is added to the path, starting at position pos with index i.
\* limit is canvas.width (or height), step is renderScale * cellSize.
RECURSIVE LineLoop(_, _, _, _, _)
LineLoop(pos, i, step, limit, cells) ==
  IF Less(pos, limit * Den) /\ i <= cells
    THEN <<pos>> \o LineLoop(Add(pos, step), i + 1, step, limit, cells)
    ELSE <<>>

\* The surface after renderGrid(canvas, p): its size, the geometry the call
\* derived and the lines of the first path (each stroked at position + 0.5).
renderGrid(p) ==
  LET width == CanvasWidth(Mul(p.canvasSize[1], p.renderScale))
      height == CanvasHeight(Mul(p.canvasSize[2], p.renderScale))
  IN [rendered |-> TRUE,
      width |-> width,
      height |-> height,
      gridPixels |-> gridPixels(p),
      gridEnd |-> gridEnd(p),
      vertical |-> LineLoop(Mul(p.renderScale, p.gridOffset[1]), 0,
                            Mul(p.renderScale, p.cellSize[1]), width,
                            gridPixels(p)[1]),
      horizontal |-> LineLoop(Mul(p.renderScale, p.gridOffset[2]), 0,
                              Mul(p.renderScale, p.cellSize[2]), height,
                              gridPixels(p)[2]),
      spanX |-> << Mul(p.renderScale, p.gridOffset[1]),
                   Mul(p.renderScale, gridEnd(p)[1]) >>,
      spanY |-> << Mul(p.renderScale, p.gridOffset[2]),
                   Mul(p.renderScale, gridEnd(p)[2]) >>]

NotRendered == [rendered |-> FALSE]

\* renderGrid(canvas, p) on a canvas whose getContext("2d") returns null
\* because it already holds a context of another type: width and height are
\* assigned before the context is asked for, then the call returns.  A
\* change of size clears the canvas's drawing buffer; what it showed is kept
\* only if both assignments repeat the size it had.
renderGridNoContext(canvas, p) ==
  LET width == CanvasWidth(Mul(p.canvasSize[1], p.renderScale))
      height == CanvasHeight(Mul(p.canvasSize[2], p.renderScale))
  IN [canvas EXCEPT !.width = width,
                    !.height = height,
                    !.rendered = width = canvas.width /\ height = canvas.height]

\* ------------------------------------------------- webGLRenderer.drawGridScene
gridCellSize(p) ==
  << Mul(p.cellSize[1], p.renderScale), Mul(p.cellSize[2], p.renderScale) >>

gridCellCount(p) ==
  << MathMin(p.maxCells[1],
             FloorDiv(p.canvasSize[1] * Den - p.gridOffset[1], p.cellSize[1])),
     MathMin(p.maxCells[2],
             FloorDiv(p.canvasSize[2] * Den - p.gridOffset[2], p.cellSize[2])) >>

\* gridBottomLeft without the vertical flip: the top-left corner.
gridBottomLeftUnflipped(p) ==
  << Mul(p.renderScale, p.gridOffset[1]), Mul(p.renderScale, p.gridOffset[2]) >>

gridBottomLeft(p) ==
  << Mul(p.renderScale, p.gridOffset[1]),
     Mul(p.renderScale, p.canvasSize[2] * Den - p.gridOffset[2]
                          - gridCellCount(p)[2] * p.cellSize[2]) >>

\* The surface after GridRenderer.render(p): its size and the uniforms
\* uploaded to the fragment shader.
drawGridScene(p) ==
  [rendered |-> TRUE,
   width |-> CanvasWidth(Mul(p.canvasSize[1], p.renderScale)),
   height |-> CanvasHeight(Mul(p.canvasSize[2], p.renderScale)),
   gridCellSize |-> gridCellSize(p),
   gridCellCount |-> gridCellCount(p),
   gridBottomLeft |-> gridBottomLeft(p)]

\* ------------------------------------------------------------ source images
\* The decodable files: each has a natural size and a pixel pattern.  The
\* colour of an image at column ix, row iy is <<R, G, B>>.
Black == <<0, 0, 0>>
White == <<255, 255, 255>>

Patterns == {"white", "black", "gray", "dim", "tint"}

Colour(pattern, ix, iy) ==
  CASE pattern = "white" -> White
    [] pattern = "black" -> Black
    [] pattern = "gray"  -> <<127, 127, 127>>
    [] pattern = "dim"   -> IF (ix + iy) % 2 = 0 THEN Black ELSE <<254, 254, 254>>
    [] pattern = "tint"  -> IF ix % 2 = 0 THEN Black ELSE <<255, 254, 0>>
    [] OTHER             -> Black      \* "blank": a canvas nothing was drawn on

\* The files the user can pick.
Files ==
  { [width |-> InitialGridSize, height |-> InitialGridSize,
     pattern |-> "white"],
    [width |-> InitialGridSize + 1, height |-> InitialGridSize,
     pattern |-> "dim"] }

NoFile == [width |-> 0, height |-> 0, pattern |-> "blank"]

\* An image canvas: what getImageData(0, 0, width, height) returns is the
\* row-major buffer of width * height pixels of the drawn pattern.
ImageCanvas(width, height, pattern) ==
  [mounted |-> TRUE, width |-> width, height |-> height, pattern |-> pattern]

NoImageCanvas == [mounted |-> FALSE]

\* A freshly mounted canvas element: default size, nothing drawn.
BlankImageCanvas ==
  ImageCanvas(DefaultCanvasWidth, DefaultCanvasHeight, "blank")

\* sourceImageData.data[(iy * width + ix) * 4 + ch]: a byte of the buffer,
\* or undefined (NaN once added to a sum) past the end of the buffer.
sourcePixel(img, ix, iy, ch) ==
  LET index == iy * img.width + ix
  IN IF index < img.width * img.height
       THEN Colour(img.pattern, index % img.width, index \div img.width)[ch]
       ELSE NaN

\* --------------------------------------------------- App: extraction effect
pixelsWidth(p) ==
  MathMin(p.maxCells[1],
          FloorDiv(p.canvasSize[1] * Den - p.gridOffset[1], p.cellSize[1]))

pixelsHeight(p) ==
  MathMin(p.maxCells[2],
          FloorDiv(p.canvasSize[2] * Den - p.gridOffset[2], p.cellSize[2]))

\* Source rectangle of output cell (x, y): sx <= ix < ex, sy <= iy < ey.
sx(p, x) == MathRound(p.gridOffset[1] + x * p.cellSize[1])
ex(p, x) == MathRound(sx(p, x) * Den + p.cellSize[1])
sy(p, y) == MathRound(p.gridOffset[2] + y * p.cellSize[2])
ey(p, y) == MathRound(sy(p, y) * Den + p.cellSize[2])

\* The inner loop over ix of one row iy of a cell's rectangle: the sum of
\* channel ch from column ix on.
RECURSIVE rowSum(_, _, _, _, _)
rowSum(img, ch, x1, ix, iy) ==
  IF ix >= x1 THEN 0
  ELSE Add(sourcePixel(img, ix, iy, ch), rowSum(img, ch, x1, ix + 1, iy))

\* The outer loop over iy: the sum of channel ch from row iy on.
RECURSIVE channelSum(_, _, _, _, _, _)
channelSum(img, ch, x0, x1, y1, iy) ==
  IF iy >= y1 THEN 0
  ELSE Add(rowSum(img, ch, x1, x0, iy),
           channelSum(img, ch, x0, x1, y1, iy + 1))

\* The number of loop iterations over the rectangle.
count(x0, x1, y0, y1) ==
  IF x1 > x0 /\ y1 > y0 THEN (x1 - x0) * (y1 - y0) ELSE 0

\* rsum / count > 127, for a sum that may be NaN.
meanExceeds(sum, n) == Greater(sum, Threshold * n)

on(img, p, x, y) ==
  LET n == count(sx(p, x), ex(p, x), sy(p, y), ey(p, y))
      sum(ch) == channelSum(img, ch, sx(p, x), ex(p, x), ey(p, y),
                            sy(p, y))
  IN n > 0 /\ (meanExceeds(sum(1), n) \/ meanExceeds(sum(2), n)
                 \/ meanExceeds(sum(3), n))

\* The RGBA value written for a cell.
cellValue(isOn) ==
  LET value == IF isOn THEN On ELSE Off
  IN <<value, value, value, Opaque>>

Transparent == <<0, 0, 0, 0>>

\* createImageData(pixelsWidth, pixelsHeight) followed by the cell loops:
\* an |pixelsWidth| x |pixelsHeight| buffer, transparent black where no cell
\* was written, indexed y * width + x.
pixelData(img, p) ==
  LET w == Abs(pixelsWidth(p))
      h == Abs(pixelsHeight(p))
  IN [width |-> w,
      height |-> h,
      data |-> [i \in 0 .. (w * h - 1) |->
                  IF (i % w) < pixelsWidth(p) /\ (i \div w) < pixelsHeight(p)
                    THEN cellValue(on(img, p, i % w, i \div w))
                    ELSE Transparent]]

\* drawScaled without the call of scale: the buffer is drawn at its own size.
drawUnscaled(src, s, width, height) ==
  LET w == IF src.width < width THEN src.width ELSE width
      h == IF src.height < height THEN src.height ELSE height
  IN [c \in (0 .. (w - 1)) \X (0 .. (h - 1)) |->
        src.data[c[2] * src.width + c[1]]]

\* scale(s, s) then drawImage(newCanvas, 0, 0) with smoothing disabled: the
\* destination pixel (px, py) takes the source pixel (px div s, py div s).
\* scale ignores a NaN argument.  The result maps each painted pixel of the
\* target (clipped to its size) to its RGBA value.
drawScaled(src, s, width, height) ==
  LET k == IF IsNaN(s) THEN 1 ELSE s
      w == IF src.width * k < width THEN src.width * k ELSE width
      h == IF src.height * k < height THEN src.height * k ELSE height
  IN [c \in (0 .. (w - 1)) \X (0 .. (h - 1)) |->
        src.data[(c[2] \div k) * src.width + (c[1] \div k)]]

NoPixels == [c \in {} |-> Transparent]

\* The extracted-image canvas once the cell loops have filled data: the
\* buffer is put on a scratch canvas and drawn scaled.
drawPixels(p, width, height, data) ==
  [ran |-> TRUE, pixelsWidth |-> pixelsWidth(p),
   pixelsHeight |-> pixelsHeight(p), width |-> width, height |-> height,
   pixelData |-> data,
   pixels |-> drawScaled(data, p.renderScale, width, height)]

\* The extracted-image canvas after the effect has run on image canvas img.
extractPixels(img, p) ==
  LET width == CanvasWidth(Mul(pixelsWidth(p), p.renderScale))
      height == CanvasHeight(Mul(pixelsHeight(p), p.renderScale))
  IN IF pixelsWidth(p) = 0 \/ pixelsHeight(p) = 0
       THEN [ran |-> TRUE, pixelsWidth |-> pixelsWidth(p),
             pixelsHeight |-> pixelsHeight(p),
             width |-> width, height |-> height,
             pixelData |-> [width |-> 0, height |-> 0, data |-> <<>>],
             pixels |-> NoPixels]
       ELSE drawPixels(p, width, height, pixelData(img, p))

\* The extracted-image canvas as mounted (width = 0, height = 0), before the
\* effect has got past its early return.
NotExtracted ==
  [ran |-> FALSE, pixelsWidth |-> 0, pixelsHeight |-> 0, width |-> 0,
   height |-> 0, pixelData |-> [width |-> 0, height |-> 0, data |-> <<>>],
   pixels |-> NoPixels]

\* -------------------------------------------------------------------- state
VARIABLES
  imageUrl,             \* 0 (undefined) or the number of the object URL
  imageFile,            \* the file behind the object URL imageUrl
  imageScale,           \* useState(2)
  gridOffset,           \* useState([0, 0]), in 1/Den
  gridSize,             \* useState([8, 8]), in 1/Den
  gridMaxPixelsRaw,     \* useState([500, 500])
  webGLGrid,            \* useState(false)
  gridCanvasSize,       \* useState([0, 0])
  imageIteration,       \* useState(0)
  imageCanvas,          \* the element behind refImageCanvas
  gridCanvas,           \* identity of the element behind refGridCanvas
  raster,               \* the grid surface as left by renderGrid
  shader,               \* the grid surface as left by GridRenderer.render
  extracted,            \* the element behind refExtractedImage
  refWebGLGridRenderer, \* 0 (undefined) or an index into renderers
  renderers,            \* every GridRenderer constructed so far
  requests,             \* every Image() decode request issued so far
  gridParams,           \* the GridParams last handed to a renderer
  unmounted             \* the App component has been unmounted

vars ==
  << imageUrl, imageFile, imageScale, gridOffset, gridSize, gridMaxPixelsRaw, webGLGrid,
     gridCanvasSize, imageIteration, imageCanvas, gridCanvas,
     raster, shader, extracted, refWebGLGridRenderer, renderers, requests,
     gridParams, unmounted >>

\* useMemo: NaN in a max-cells field counts as 1.
gridMaxPixels(raw) ==
  << IF IsNaN(raw[1]) THEN NaNMaxCells ELSE raw[1],
     IF IsNaN(raw[2]) THEN NaNMaxCells ELSE raw[2] >>

\* The GridParams both effects build from the component state.
params(canvasSize, raw, size, offset, scale) ==
  GridParams(canvasSize, gridMaxPixels(raw), size, offset, scale)

\* ----------------------------------------------------- the effects, alone
\* The renderers and the extractor applied to a component state in which an
\* image may have been loaded: used to compare the three consumers of the
\* grid geometry on the same GridParams.
FarOffset == (MaxCanvas + 1) * Den
HugeCell == (MaxCanvas + 2) * Den

Offsets ==
  { <<0, 0>>, <<1, 0>>, <<1, 1>>, <<Den + 1, 1>>, <<0, FarOffset>>,
    <<FarOffset, FarOffset>> }
CellSizes ==
  { <<Den, Den>>, <<Den + 1, Den>>, <<Den + 1, Den + 1>>,
    <<2 * Den + 1, Den + 1>>, <<HugeCell, HugeCell>> }
MaxCells == { <<MaxMaxCells, MaxMaxCells>>, <<1, 2>>, <<2, 1>> }
Scales == {1, 2, 3}

RenderInit ==
  /\ imageUrl = 1
  /\ imageScale \in Scales
  /\ gridOffset \in Offsets
  /\ gridSize \in CellSizes
  /\ gridMaxPixelsRaw \in MaxCells
  /\ webGLGrid = FALSE
  /\ \/ /\ gridCanvasSize = <<0, 0>>            \* the image is still decoding
        /\ imageCanvas = BlankImageCanvas
        /\ imageIteration = 0
        /\ imageFile \in Files
        /\ requests = << [cancelImageDraw |-> FALSE, fired |-> FALSE] >>
     \/ \E w \in 1 .. MaxCanvas, h \in 1 .. MaxCanvas, pattern \in Patterns :
          /\ gridCanvasSize = <<w, h>>
          /\ imageCanvas = ImageCanvas(w, h, pattern)
          /\ imageIteration = 1
          /\ imageFile = [width |-> w, height |-> h, pattern |-> pattern]
          /\ requests = << [cancelImageDraw |-> FALSE, fired |-> TRUE] >>
  /\ gridCanvas = 1
  /\ raster = NotRendered
  /\ shader = NotRendered
  /\ extracted = NotExtracted
  /\ refWebGLGridRenderer = 0
  /\ renderers = <<>>
  /\ gridParams = params(gridCanvasSize, gridMaxPixelsRaw, gridSize,
                         gridOffset, imageScale)
  /\ unmounted = FALSE

Render2D ==
  /\ raster' = renderGrid(gridParams)
  /\ UNCHANGED << imageUrl, imageFile, imageScale, gridOffset, gridSize,
                  gridMaxPixelsRaw, webGLGrid, gridCanvasSize, imageIteration,
                  imageCanvas, gridCanvas, shader, extracted,
                  refWebGLGridRenderer, renderers, requests, gridParams,
                  unmounted >>

RenderWebGL ==
  /\ shader' = drawGridScene(gridParams)
  /\ UNCHANGED << imageUrl, imageFile, imageScale, gridOffset, gridSize,
                  gridMaxPixelsRaw, webGLGrid, gridCanvasSize, imageIteration,
                  imageCanvas, gridCanvas, raster, extracted,
                  refWebGLGridRenderer, renderers, requests, gridParams,
                  unmounted >>

ExtractCells ==
  /\ imageCanvas.mounted
  /\ extracted' = extractPixels(imageCanvas, gridParams)
  /\ UNCHANGED << imageUrl, imageFile, imageScale, gridOffset, gridSize,
                  gridMaxPixelsRaw, webGLGrid, gridCanvasSize, imageIteration,
                  imageCanvas, gridCanvas, raster, shader,
                  refWebGLGridRenderer, renderers, requests, gridParams,
                  unmounted >>

\* renderGrid called, at some renderScale, on the surface that holds the
\* shader renderer's WebGL context.
Render2DNoContext ==
  /\ shader.rendered
  /\ \E scale \in Scales :
       shader' = renderGridNoContext(shader,
                                     [gridParams EXCEPT !.renderScale = scale])
  /\ UNCHANGED << imageUrl, imageFile, imageScale, gridOffset, gridSize,
                  gridMaxPixelsRaw, webGLGrid, gridCanvasSize, imageIteration,
                  imageCanvas, gridCanvas, raster, extracted,
                  refWebGLGridRenderer, renderers, requests, gridParams,
                  unmounted >>

RenderNext == Render2D \/ RenderWebGL \/ ExtractCells \/ Render2DNoContext

SpecRender == RenderInit /\ [][RenderNext]_vars

\* --------------------------------------------------------------- App: effects
\* The state after the commit is read through the primed variables.
newParams ==
  params(gridCanvasSize', gridMaxPixelsRaw', gridSize', gridOffset',
         imageScale')

\* GridRenderer has a constructor and render, and no operation that frees
\* its program or vertex buffer: released is never set.
GridRenderer(canvas) == [canvas |-> canvas, released |-> FALSE]

\* "Whenever the grid parameters change, update the grid."
gridEffect ==
  /\ gridParams' = newParams
  /\ IF webGLGrid'
       THEN /\ IF refWebGLGridRenderer = 0
                    \/ renderers[refWebGLGridRenderer].canvas # gridCanvas'
                 THEN /\ renderers' = Append(renderers, GridRenderer(gridCanvas'))
                      /\ refWebGLGridRenderer' = Len(renderers) + 1
                 ELSE UNCHANGED << renderers, refWebGLGridRenderer >>
            /\ shader' = drawGridScene(newParams)
            /\ raster' = NotRendered
       ELSE /\ raster' = renderGrid(newParams)
            /\ shader' = NotRendered
            /\ UNCHANGED << renderers, refWebGLGridRenderer >>

\* "Whenever the grid or image data changes, recalculate extracted pixels."
extractionEffect ==
  IF imageCanvas'.mounted
    THEN extracted' = extractPixels(imageCanvas', newParams)
    ELSE UNCHANGED extracted

\* cancelImageDraw with the cleanup left out.
cancelNothing(reqs, url) == reqs

\* Cleanup of the image effect: the request of the effect being replaced is
\* told not to draw.
cancelImageDraw(reqs, url) ==
  IF url = 0 THEN reqs
  ELSE [reqs EXCEPT ![url].cancelImageDraw = TRUE]

\* ---------------------------------------------------------------- App: Init
Init ==
  /\ imageUrl = 0
  /\ imageFile = NoFile
  /\ imageScale = InitialScale
  /\ gridOffset = <<0, 0>>
  /\ gridSize = <<InitialGridSize * Den, InitialGridSize * Den>>
  /\ gridMaxPixelsRaw = <<MaxMaxCells, MaxMaxCells>>
  /\ webGLGrid = FALSE
  /\ gridCanvasSize = <<0, 0>>
  /\ imageIteration = 0
  /\ imageCanvas = NoImageCanvas
  /\ gridCanvas = 1
  /\ gridParams = params(gridCanvasSize, gridMaxPixelsRaw, gridSize,
                         gridOffset, imageScale)
  /\ raster = renderGrid(gridParams)
  /\ shader = NotRendered
  /\ extracted = NotExtracted
  /\ refWebGLGridRenderer = 0
  /\ renderers = <<>>
  /\ requests = <<>>
  /\ unmounted = FALSE

\* ------------------------------------------------------------ App: handlers
\* event.target.valueAsNumber of the number fields.
ScaleInputs == {NaN, 0, 11}
MaxCellInputs == {NaN, 501}

\* updateImage(file) and the image effect that follows the new imageUrl.
chooseImage(file) ==
  /\ ~unmounted
  /\ Len(requests) < MaxRequests
  /\ imageUrl' = Len(requests) + 1
  /\ imageCanvas' = IF imageUrl = 0 THEN BlankImageCanvas ELSE imageCanvas
  /\ imageFile' = file
  /\ requests' = Append(cancelImageDraw(requests, imageUrl),
                        [cancelImageDraw |-> FALSE, fired |-> FALSE])
  /\ UNCHANGED << imageScale, gridOffset, gridSize, gridMaxPixelsRaw,
                  webGLGrid, gridCanvasSize, imageIteration, gridCanvas, raster, shader, extracted,
                  refWebGLGridRenderer, renderers, gridParams, unmounted >>

\* updateImage(undefined) and the image effect that follows: the render
\* with imageUrl undefined unmounts the image canvas, so refImageCanvas is
\* null when the effect runs and the effect returns at its first test; the
\* branch that clears gridCanvasSize needs a mounted image canvas.
clearImage ==
  /\ ~unmounted
  /\ imageUrl # 0
  /\ imageUrl' = 0
  /\ imageFile' = NoFile
  /\ imageCanvas' = NoImageCanvas
  /\ requests' = cancelImageDraw(requests, imageUrl)
  /\ UNCHANGED << imageScale, gridOffset, gridSize, gridMaxPixelsRaw,
                  webGLGrid, imageIteration, gridCanvas, unmounted >>
  /\ IF ~imageCanvas'.mounted
       THEN UNCHANGED << gridCanvasSize, raster, shader, extracted,
                         refWebGLGridRenderer, renderers, gridParams >>
       ELSE /\ gridCanvasSize' = <<0, 0>>
            /\ gridEffect
            /\ extractionEffect

\* The image request r decodes: the file behind imageUrl for the request
\* of the current URL; for a request whose URL has since been revoked, any
\* file it had fetched before.
decoded(r) == IF r = imageUrl THEN {imageFile} ELSE Files

\* image.onload of request r.
onload(r) ==
  /\ ~requests[r].fired
  /\ requests' = [requests EXCEPT ![r].fired = TRUE]
  /\ UNCHANGED << imageUrl, imageFile, imageScale, gridOffset, gridSize,
                  gridMaxPixelsRaw, webGLGrid, gridCanvas,
                  unmounted >>
  /\ IF requests[r].cancelImageDraw
       THEN UNCHANGED << imageCanvas, gridCanvasSize, imageIteration, raster,
                         shader, extracted, refWebGLGridRenderer, renderers,
                         gridParams >>
       ELSE \E image \in decoded(r) :
              /\ imageCanvas' = ImageCanvas(image.width, image.height,
                                            image.pattern)
              /\ gridCanvasSize' = <<image.width, image.height>>
              /\ imageIteration' = imageIteration + 1
              /\ gridEffect
              /\ extractionEffect

onChangeScale(valueAsNumber) ==
  /\ ~unmounted
  /\ imageScale' = MathMin(MaxScale, MathMax(valueAsNumber, MinScale))
  /\ UNCHANGED << imageUrl, imageFile, gridOffset, gridSize, gridMaxPixelsRaw, webGLGrid,
                  gridCanvasSize, imageIteration, imageCanvas,
                  gridCanvas, requests, unmounted >>
  /\ IF imageScale' = imageScale
       THEN UNCHANGED << raster, shader, extracted, refWebGLGridRenderer,
                         renderers, gridParams >>
       ELSE gridEffect /\ extractionEffect

onChangeMaxWidth(valueAsNumber) ==
  /\ ~unmounted
  /\ gridMaxPixelsRaw' =
       << MathMin(MaxMaxCells, MathMax(valueAsNumber, MinMaxCells)),
          gridMaxPixelsRaw[2] >>
  /\ UNCHANGED << imageUrl, imageFile, imageScale, gridOffset, gridSize, webGLGrid,
                  gridCanvasSize, imageIteration, imageCanvas,
                  gridCanvas, requests, unmounted >>
  /\ gridEffect
  /\ extractionEffect

onChangeMaxHeight(valueAsNumber) ==
  /\ ~unmounted
  /\ gridMaxPixelsRaw' =
       << gridMaxPixelsRaw[1],
          MathMin(MaxMaxCells, MathMax(valueAsNumber, MinMaxCells)) >>
  /\ UNCHANGED << imageUrl, imageFile, imageScale, gridOffset, gridSize, webGLGrid,
                  gridCanvasSize, imageIteration, imageCanvas,
                  gridCanvas, requests, unmounted >>
  /\ gridEffect
  /\ extractionEffect

\* The grid canvas is keyed by the mode, so a toggle mounts a new element.
toggleWebGLGrid ==
  /\ ~unmounted
  /\ webGLGrid \/ Len(renderers) < MaxRenderers
  /\ webGLGrid' = ~webGLGrid
  /\ gridCanvas' = gridCanvas + 1
  /\ UNCHANGED << imageUrl, imageFile, imageScale, gridOffset, gridSize,
                  gridMaxPixelsRaw, gridCanvasSize, imageIteration, imageCanvas, extracted, requests, unmounted >>
  /\ gridEffect

\* Unmount of App: the image effect's cleanup tells the pending request not
\* to draw.  The component state and its elements are discarded with the
\* component (held here at their initial values); only the Image objects and
\* their onload closures outlive it.
unmount ==
  /\ ~unmounted
  /\ unmounted' = TRUE
  /\ requests' = cancelImageDraw(requests, imageUrl)
  /\ imageUrl' = 0
  /\ imageFile' = NoFile
  /\ imageScale' = InitialScale
  /\ gridOffset' = <<0, 0>>
  /\ gridSize' = <<InitialGridSize * Den, InitialGridSize * Den>>
  /\ gridMaxPixelsRaw' = <<MaxMaxCells, MaxMaxCells>>
  /\ webGLGrid' = FALSE
  /\ gridCanvasSize' = <<0, 0>>
  /\ imageIteration' = 0
  /\ imageCanvas' = NoImageCanvas
  /\ gridCanvas' = 0
  /\ gridParams' = params(gridCanvasSize', gridMaxPixelsRaw', gridSize',
                          gridOffset', imageScale')
  /\ raster' = NotRendered
  /\ shader' = NotRendered
  /\ extracted' = NotExtracted
  /\ refWebGLGridRenderer' = 0
  /\ UNCHANGED renderers

Next ==
  \/ \E file \in Files : chooseImage(file)
  \/ clearImage
  \/ \E r \in 1 .. Len(requests) : onload(r)
  \/ \E v \in ScaleInputs : onChangeScale(v)
  \/ \E v \in MaxCellInputs : onChangeMaxWidth(v)
  \/ \E v \in MaxCellInputs : onChangeMaxHeight(v)
  \/ toggleWebGLGrid
  \/ unmount

Spec == Init /\ [][Next]_vars

\* ------------------------------------------------------------------ claims
Axes == {1, 2}

\* Width, in 1/Den device pixels, of the shader's grid along x, and the
\* distance of its lower edge from the top of the surface (the vertical
\* flip of gridBottomLeft): the grid extent the uniforms imply, scaled.
shaderExtentX == shader.gridBottomLeft[1]
                   + shader.gridCellSize[1] * shader.gridCellCount[1]
shaderExtentY == shader.height * Den - shader.gridBottomLeft[2]

\* C1: on each axis the renderers' cell count is at most maxCells and the
\* grid extent gridOffset + cellSize * cellCount is at most canvasSize.
C1_Clamping ==
  /\ raster.rendered =>
       \A i \in Axes :
         /\ raster.gridPixels[i] <= gridParams.maxCells[i]
         /\ raster.gridEnd[i] = gridParams.gridOffset[i]
                                  + gridParams.cellSize[i] * raster.gridPixels[i]
         /\ raster.gridEnd[i] <= gridParams.canvasSize[i] * Den
  /\ shader.rendered =>
       /\ \A i \in Axes : shader.gridCellCount[i] <= gridParams.maxCells[i]
       /\ shaderExtentX <= shader.width * Den
       /\ shaderExtentY <= shader.height * Den

\* C1 witness: both renderers ran on a grid clamped by maxCells on x (the
\* canvas would fit more cells) and filling the canvas exactly on y.
C1_Witness ==
  /\ raster.rendered /\ shader.rendered
  /\ raster.gridPixels[1] = gridParams.maxCells[1]
  /\ raster.gridEnd[1] + gridParams.cellSize[1] <= gridParams.canvasSize[1] * Den
  /\ raster.gridPixels[2] >= 1
  /\ raster.gridEnd[2] = gridParams.canvasSize[2] * Den
  /\ shader.gridBottomLeft[2] = 0

\* C2: no consumer computes a negative cell count; where canvasSize is less
\* than gridOffset the count is 0.
C2_NonNegativeCount ==
  \A i \in Axes :
    /\ raster.rendered =>
         /\ raster.gridPixels[i] >= 0
         /\ gridParams.canvasSize[i] * Den < gridParams.gridOffset[i]
              => raster.gridPixels[i] = 0
    /\ shader.rendered =>
         /\ shader.gridCellCount[i] >= 0
         /\ gridParams.canvasSize[i] * Den < gridParams.gridOffset[i]
              => shader.gridCellCount[i] = 0
    /\ extracted.ran =>
         /\ <<extracted.pixelsWidth, extracted.pixelsHeight>>[i] >= 0
         /\ gridParams.canvasSize[i] * Den < gridParams.gridOffset[i]
              => <<extracted.pixelsWidth, extracted.pixelsHeight>>[i] = 0

\* C3: the raster renderer, the shader renderer and the extractor derive the
\* same cell counts, and the raster gridEnd equals the extent the shader's
\* uniforms imply after the vertical flip and division by renderScale.
C3_GeometryAgreement ==
  (raster.rendered /\ shader.rendered /\ extracted.ran) =>
    /\ raster.gridPixels = shader.gridCellCount
    /\ raster.gridPixels = <<extracted.pixelsWidth, extracted.pixelsHeight>>
    /\ shaderExtentX = gridParams.renderScale * raster.gridEnd[1]
    /\ shaderExtentY = gridParams.renderScale * raster.gridEnd[2]

\* C3 witness: all three ran on a grid with a fractional offset that has
\* cells on both axes and ends short of the bottom of the canvas.
C3_Witness ==
  /\ raster.rendered /\ shader.rendered /\ extracted.ran
  /\ raster.gridPixels[1] >= 1 /\ raster.gridPixels[2] >= 2
  /\ gridParams.gridOffset[2] % Den # 0
  /\ raster.gridEnd[2] < gridParams.canvasSize[2] * Den
  /\ gridParams.renderScale > 1

\* The source pixels of image canvas img inside the rectangle of cell (x, y).
cellPixels(img, p, x, y) ==
  { c \in (sx(p, x) .. (ex(p, x) - 1)) \X (sy(p, y) .. (ey(p, y) - 1)) :
      c[1] < img.width /\ c[2] < img.height }

RECURSIVE SetSum(_, _, _, _)
SetSum(img, ch, set, acc) ==
  IF set = {} THEN acc
  ELSE LET c == CHOOSE c \in set : TRUE
       IN SetSum(img, ch, set \ {c}, acc + Colour(img.pattern, c[1], c[2])[ch])

\* Some channel's mean over the cell's source pixels is above the threshold.
brightCell(img, p, x, y) ==
  \E ch \in 1 .. 3 :
    SetSum(img, ch, cellPixels(img, p, x, y), 0)
      > Threshold * Cardinality(cellPixels(img, p, x, y))

\* C4: every output cell with a non-empty rectangle is opaque white iff some
\* channel's mean over its source pixels is strictly above 127, and opaque
\* black otherwise; so a cell of an all-white image is white.
C4_Threshold ==
  (extracted.ran /\ extracted.pixelsWidth > 0 /\ extracted.pixelsHeight > 0) =>
    \A x \in 0 .. (extracted.pixelsWidth - 1),
       y \in 0 .. (extracted.pixelsHeight - 1) :
      LET value == extracted.pixelData.data[y * extracted.pixelsWidth + x]
      IN /\ value[4] = Opaque
         /\ value \in { <<On, On, On, Opaque>>, <<Off, Off, Off, Opaque>> }
         /\ cellPixels(imageCanvas, gridParams, x, y) # {} =>
              (value[1] = On <=> brightCell(imageCanvas, gridParams, x, y))

\* C5: for a non-degenerate grid the output bitmap is cellCount.x * s by
\* cellCount.y * s pixels, all painted, and the s-by-s block of each logical
\* cell is uniformly that cell's value.
C5_UpscaleFidelity ==
  (extracted.ran /\ extracted.pixelsWidth > 0 /\ extracted.pixelsHeight > 0
     /\ gridParams.renderScale \in MinScale .. MaxScale) =>
    LET s == gridParams.renderScale
    IN /\ extracted.width = extracted.pixelsWidth * s
       /\ extracted.height = extracted.pixelsHeight * s
       /\ DOMAIN extracted.pixels
            = (0 .. (extracted.width - 1)) \X (0 .. (extracted.height - 1))
       /\ \A x \in 0 .. (extracted.pixelsWidth - 1),
             y \in 0 .. (extracted.pixelsHeight - 1),
             dx \in 0 .. (s - 1), dy \in 0 .. (s - 1) :
            extracted.pixels[<<x * s + dx, y * s + dy>>]
              = cellValue(on(imageCanvas, gridParams, x, y))

\* C5 witness: an extraction at scale 3 of a grid with an on cell next to
\* an off cell.
C5_Witness ==
  /\ extracted.ran /\ gridParams.renderScale = 3
  /\ extracted.pixelsWidth >= 2 /\ extracted.pixelsHeight >= 1
  /\ extracted.width * extracted.height
       = 9 * extracted.pixelsWidth * extracted.pixelsHeight
  /\ extracted.pixels[<<0, 0>>][1] = Off
  /\ extracted.pixels[<<2, 2>>][1] = Off
  /\ extracted.pixels[<<3, 0>>][1] = On
  /\ extracted.pixels[<<5, 2>>][1] = On

\* C6: when cellSize exceeds canvasSize on both axes the extractor computes
\* cellCount (0, 0) and leaves a zero-size output bitmap with no pixel
\* written.
C6_ZeroArea ==
  (extracted.ran
     /\ \A i \in Axes : gridParams.cellSize[i] > gridParams.canvasSize[i] * Den)
  => /\ extracted.pixelsWidth = 0 /\ extracted.pixelsHeight = 0
     /\ extracted.width = 0 /\ extracted.height = 0
     /\ extracted.pixels = NoPixels

\* C7: the GridParams handed to the renderers and the extractor have
\* renderScale within [1, 10] and each maxCells component within [1, 500];
\* NaN never reaches them.
C7_ParamsInRange ==
  /\ gridParams.renderScale \in MinScale .. MaxScale
  /\ \A i \in Axes : gridParams.maxCells[i] \in MinMaxCells .. MaxMaxCells

\* A step in which the onload callback of request r runs.
completes(r) == ~requests[r].fired /\ requests'[r].fired

C9_SingleLiveRenderer ==
  Cardinality({ i \in 1 .. Len(renderers) : ~renderers[i].released }) <= 1

\* C10 as claimed: the path has cellCount.x + 1 vertical and cellCount.y + 1
\* horizontal lines whenever the cell counts are non-negative.
C10_LineCount ==
  (raster.rendered /\ raster.gridPixels[1] >= 0 /\ raster.gridPixels[2] >= 0)
  => /\ Len(raster.vertical) = raster.gridPixels[1] + 1
     /\ Len(raster.horizontal) = raster.gridPixels[2] + 1

\* The number of lines on axis i: the closing line is left out when it
\* would lie on the edge of the canvas.
linesExpected(i) ==
  IF raster.gridEnd[i] = gridParams.canvasSize[i] * Den
    THEN raster.gridPixels[i]
    ELSE raster.gridPixels[i] + 1

\* C10 amended: with non-negative cell counts the path has cellCount + 1
\* lines on an axis, one per cell boundary from gridOffset on, except that
\* the closing line is omitted when gridExtent equals canvasSize on that
\* axis, leaving cellCount lines.
C10_LineCountAmended ==
  (raster.rendered /\ raster.gridPixels[1] >= 0 /\ raster.gridPixels[2] >= 0
     /\ gridParams.renderScale \in MinScale .. MaxScale)
  => /\ Len(raster.vertical) = linesExpected(1)
     /\ Len(raster.horizontal) = linesExpected(2)
     /\ \A k \in 1 .. Len(raster.vertical) :
          raster.vertical[k] = gridParams.renderScale
             * (gridParams.gridOffset[1] + (k - 1) * gridParams.cellSize[1])
     /\ \A k \in 1 .. Len(raster.horizontal) :
          raster.horizontal[k] = gridParams.renderScale
             * (gridParams.gridOffset[2] + (k - 1) * gridParams.cellSize[2])

\* C10 witness: a grid that fills the canvas exactly on x, so its closing
\* vertical line is left out, and ends short of the canvas on y.
C10_Witness ==
  /\ raster.rendered
  /\ raster.gridPixels[1] >= 2
  /\ raster.gridEnd[1] = gridParams.canvasSize[1] * Den
  /\ Len(raster.vertical) = raster.gridPixels[1]
  /\ raster.gridPixels[2] >= 1
  /\ raster.gridEnd[2] < gridParams.canvasSize[2] * Den
  /\ Len(raster.horizontal) = raster.gridPixels[2] + 1

\* C11: a renderGrid call on a surface that cannot give a 2D context leaves
\* the surface's width, height and contents as they were.
C11_NoContextNoOp ==
  [][Render2DNoContext => UNCHANGED shader]_vars

\* C12: the sampling rectangles of adjacent cells abut: on each axis the end
\* bound of a cell is the start bound of the next cell, so no source pixel
\* is summed into two cells and none between the cells is skipped.
C12_Partition ==
  extracted.ran =>
    /\ \A x \in 0 .. (extracted.pixelsWidth - 2) :
         ex(gridParams, x) = sx(gridParams, x + 1)
    /\ \A y \in 0 .. (extracted.pixelsHeight - 2) :
         ey(gridParams, y) = sy(gridParams, y + 1)

\* C13: every source pixel read for a cell inside the cell count lies inside
\* the image: 0 <= ix < width and 0 <= iy < height.
C13_ReadsInsideImage ==
  extracted.ran =>
    \A x \in 0 .. (extracted.pixelsWidth - 1),
       y \in 0 .. (extracted.pixelsHeight - 1) :
      \A ix \in sx(gridParams, x) .. (ex(gridParams, x) - 1),
         iy \in sy(gridParams, y) .. (ey(gridParams, y) - 1) :
        /\ 0 <= ix /\ ix < imageCanvas.width
        /\ 0 <= iy /\ iy < imageCanvas.height

\* C14: while no image is selected the grid canvas size is (0, 0), so the
\* grid overlay and the extracted bitmap show nothing of an earlier image.
C14_ClearedImageEmptiesGrid ==
  (imageUrl = 0 /\ ~unmounted) =>
    /\ gridCanvasSize = <<0, 0>>
    /\ gridParams.canvasSize = <<0, 0>>
    /\ extracted.pixels = NoPixels

====
